---- MODULE Spec2Model ----
(***************************************************************************)
(* The deployment pod stream of the api-server                             *)
(* (controllersv1/deployment.go, deploymentController.WsPods): the         *)
(* websocket handlers of one deployment, the shared pod informer that      *)
(* calls their callbacks, and the clients at the other end of the sockets. *)
(*                                                                         *)
(* One handler goroutine per session; one listener goroutine per           *)
(* registered callback set; detached status re-sync goroutines.  An action *)
(* is a maximal run of one goroutine between two points where another      *)
(* goroutine can observe or change shared state: taking rw, starting or    *)
(* finishing a socket write, reading the lister.                           *)
(*                                                                         *)
(* The cluster pod stream (controllersv1/cluster.go, clusterController.    *)
(* WsPods) has one handler and one private callback set per session and    *)
(* shares nothing between sessions; it is specified by ClusterSpec over    *)
(* the same per-handler variables.  The event viewer of the dashboard      *)
(* (KubePodEvents), which reconnects its websocket, is specified by        *)
(* ClientSpec.                                                             *)
(***************************************************************************)
EXTENDS Integers, FiniteSets, Sequences, TLC

\* ---------------------------------------------------------------- bounds
NumSessions == 2        \* websocket requests made for the deployment
MaxEvents == 1          \* pod events the informer delivers in one run
MaxFaults == 1          \* failed calls to the cluster or the deployment service in one run
NumEffects == 2         \* runs of the viewer's effect (mount, then a change of wsUrl or open)
MaxConnects == 3        \* websockets one run of the effect opens
NumDeployments == 2     \* deployments with handlers (hasManager map keys)

\* ------------------------------------------------------ program constants
maxFailed == 10         \* maxFailed := int64(10)

Sessions == 1..NumSessions
Effects == 1..NumEffects
Deployments == 1..NumDeployments

\* One pod of the namespace: absent, carrying the deployment's label in
\* phase Pending or Running, or present with another label value.
PodStates == {"none", "P", "R", "other"}

VARIABLES
    pod,          \* the informer's store (what the lister returns)
    epoch,        \* history: number of changes of the matching view so far
    events,       \* pod events delivered so far
    faults,       \* failed calls to the cluster and to the deployment service so far
    pc,           \* position of each WsPods handler goroutine
    conns,        \* deploymentPodsWsConns[cachedKey]
    isNew,        \* connWrapper.IsNew
    isClosed,     \* connWrapper.IsClosed
    sockOpen,     \* the server side of the connection is not closed
    clientGone,   \* the client has disconnected
    podSchemas,   \* the handler's local podSchemas (last view it built)
    hasManager,   \* deploymentPodsWsHasManagers[cachedKey]
    registered,   \* the handler's callbacks are registered with the informer
    pending,      \* notifications queued for the handler's listener
    cbpc,         \* position of the handler's listener goroutine in send_
    sweepTargets, \* sessions the running send wrote to (eg.Go closures)
    viewChanged,  \* viewChanged of the running send
    failedCount,  \* the handler's failedCount
    resync,       \* detached status re-sync goroutines whose Get is failing
    syncing,      \* detached status re-sync goroutines whose SyncStatus is failing
    recv,         \* last success frame each client received
    nerr,         \* number of error frames each client received
    tick,         \* parity of the ticks the final loops have consumed
    lastBuilt,    \* history: the view built by the latest send of any handler
    errMsg,       \* cluster stream: message of the last error frame each client received
    informerGot,  \* cluster stream: the handler has called GetPodInformer
    nframes,      \* cluster stream: success frames each client received
    deploymentPodsWsConnRws, \* the registry's lock for cachedKey (0: nil)
    rw,           \* the lock each handler took from the registry (0: none yet)
    deploymentOf, \* hasManager map: the deployment (cachedKey) of each handler
    mpc,          \* hasManager map: each handler's position around its accesses
    deploymentPodsWsHasManagers, \* hasManager map: the map itself
    raced,        \* hasManager map: the handler's access overlapped a write
    fatal,        \* hasManager map: the runtime has aborted the process
    effect,       \* viewer: state of each run of the effect
    ws,           \* viewer: state of the WebSocket held in the effect's ws
    selfClose,    \* viewer: the effect's selfClose
    timers,       \* viewer: pending setTimeout(connect, 3000) of the effect
    nconnect,     \* viewer history: calls of connect() made by the effect
    closedBy,     \* viewer history: which end closed the effect's current socket
    wsRef,        \* viewer: wsRef.current (the effect whose socket it holds, 0 for null)
    wsOpenRef     \* viewer: wsOpenRef.current

vars == <<pod, epoch, events, faults, pc, conns, isNew, isClosed, sockOpen,
          clientGone, podSchemas, hasManager, registered, pending, cbpc,
          sweepTargets, viewChanged, failedCount, resync, tick, recv, nerr,
          lastBuilt, errMsg, informerGot, effect, ws, selfClose, timers,
          nconnect, closedBy, wsRef, wsOpenRef, syncing,
          nframes, deploymentPodsWsConnRws, rw, deploymentOf, mpc,
          deploymentPodsWsHasManagers, raced, fatal>>

\* ------------------------------------------------------------ pure parts

\* checkPod: the pod carries the deployment's label.
checkPod(p) == p \in {"P", "R"}

\* ListPodsByDeployment then ToKubePodSchemas: the schemas of the matching pods.
ToKubePodSchemas(p) == IF checkPod(p) THEN <<p>> ELSE <<>>

\* A built view, tagged with the epoch it was built in (the tag is history,
\* not part of the payload).
View(p, e) == [v |-> ToKubePodSchemas(p), e |-> e]
Nil == [v |-> <<"nil">>, e |-> 0]

\* reflect.DeepEqual on two payloads.
DeepEqual(a, b) == a.v = b.v

\* A write on session s's socket succeeds iff neither end has closed it.
WriteOK(s) == sockOpen[s] /\ ~clientGone[s]

\* The reader goroutine runs from the end of the snapshot write on.
ReaderRunning(h) == pc[h] \in {"wait", "claim", "manager", "exit_ok", "exit_err"}

\* pollingCtx of handler h is done: the reader goroutine called cancel() on a
\* failed conn.ReadMessage (the client went away, or a send closed the
\* connection), or the handler returned (deferred cancel).
Cancelled(h) ==
    \/ pc[h] = "done"
    \/ ReaderRunning(h) /\ (clientGone[h] \/ ~sockOpen[h])

\* rw is write-locked across steps only by a running send.
LockFree == \A h \in Sessions : cbpc[h] # "sweep"

\* Lock l is not write-locked by a running send.
Free(l) == \A g \in Sessions : cbpc[g] = "sweep" => rw[g] # l

\* rw = &sync.RWMutex{}: a lock distinct from every lock created before.
NewLock == Cardinality({rw[g] : g \in Sessions} \ {0}) + 1

\* writeWsError(conn, err) with err # nil: one error frame, if the write succeeds.
writeWsError(s) == [nerr EXCEPT ![s] = IF WriteOK(s) THEN @ + 1 ELSE @]

\* ------------------------------------------------------------------ Init

Init ==
    /\ pod \in PodStates
    /\ epoch = 0
    /\ events = 0
    /\ faults = 0
    /\ pc = [h \in Sessions |-> "init"]
    /\ conns = {}
    /\ isNew = [h \in Sessions |-> FALSE]
    /\ isClosed = [h \in Sessions |-> FALSE]
    /\ sockOpen = [h \in Sessions |-> FALSE]
    /\ clientGone = [h \in Sessions |-> FALSE]
    /\ podSchemas = [h \in Sessions |-> Nil]
    /\ hasManager = FALSE
    /\ registered = [h \in Sessions |-> FALSE]
    /\ pending = [h \in Sessions |-> 0]
    /\ cbpc = [h \in Sessions |-> "idle"]
    /\ sweepTargets = {}
    /\ viewChanged = FALSE
    /\ failedCount = [h \in Sessions |-> 0]
    /\ resync = [h \in Sessions |-> 0]
    /\ syncing = [h \in Sessions |-> 0]
    /\ tick = 0
    /\ recv = [h \in Sessions |-> Nil]
    /\ nerr = [h \in Sessions |-> 0]
    /\ lastBuilt = Nil
    /\ errMsg = [h \in Sessions |-> "none"]
    /\ informerGot = [h \in Sessions |-> FALSE]
    /\ nframes = [h \in Sessions |-> 0]
    /\ deploymentPodsWsConnRws = 0
    /\ rw = [h \in Sessions |-> 0]
    /\ deploymentOf = [h \in Sessions |-> 1]
    /\ mpc = [h \in Sessions |-> "wait"]
    /\ deploymentPodsWsHasManagers = [d \in Deployments |-> FALSE]
    /\ raced = [h \in Sessions |-> FALSE]
    /\ fatal = FALSE
    /\ effect = [e \in Effects |-> "idle"]
    /\ ws = [e \in Effects |-> "none"]
    /\ selfClose = [e \in Effects |-> FALSE]
    /\ timers = [e \in Effects |-> 0]
    /\ nconnect = [e \in Effects |-> 0]
    /\ closedBy = [e \in Effects |-> "none"]
    /\ wsRef = 0
    /\ wsOpenRef = FALSE

\* ---------------------------------------------------------- environment

\* PodEvent with the callbacks run for every event, whatever its object.
PodEvent_NotifiesAll ==
    /\ events < MaxEvents
    /\ \E q \in PodStates :
        /\ \/ pod = "none" /\ q # "none"
           \/ pod # "none" /\ q # "none"
           \/ pod # "none" /\ q = "none"
        /\ pending' = [h \in Sessions |->
                         IF registered[h] THEN pending[h] + 1 ELSE pending[h]]
        /\ epoch' = IF ToKubePodSchemas(q) # ToKubePodSchemas(pod)
                    THEN epoch + 1 ELSE epoch
        /\ pod' = q
    /\ events' = events + 1
    /\ UNCHANGED <<faults, pc, conns, isNew, isClosed, sockOpen, clientGone,
                   podSchemas, hasManager, registered, cbpc, sweepTargets,
                   viewChanged, failedCount, resync, tick, recv, nerr,
                   lastBuilt, errMsg, informerGot, effect, ws, selfClose,
                   timers, nconnect, closedBy, wsRef, wsOpenRef, syncing,
                   nframes, deploymentPodsWsConnRws, rw, deploymentOf, mpc,
                   deploymentPodsWsHasManagers, raced, fatal>>

\* The informer applies one pod event to its store, then notifies every
\* registered listener; a listener's callback runs send_ only when checkPod
\* accepts the event's object (the new object of an add or update, the
\* deleted object of a delete), so only those notifications are queued.
PodEvent ==
    /\ events < MaxEvents
    /\ \E q \in PodStates :
        /\ \/ pod = "none" /\ q # "none"          \* AddFunc(q)
           \/ pod # "none" /\ q # "none"          \* UpdateFunc(pod, q)
           \/ pod # "none" /\ q = "none"          \* DeleteFunc(pod)
        /\ LET obj == IF q = "none" THEN pod ELSE q IN
           pending' = [h \in Sessions |->
                         IF registered[h] /\ checkPod(obj)
                         THEN pending[h] + 1 ELSE pending[h]]
        /\ epoch' = IF ToKubePodSchemas(q) # ToKubePodSchemas(pod)
                    THEN epoch + 1 ELSE epoch
        /\ pod' = q
    /\ events' = events + 1
    /\ UNCHANGED <<faults, pc, conns, isNew, isClosed, sockOpen, clientGone,
                   podSchemas, hasManager, registered, cbpc, sweepTargets,
                   viewChanged, failedCount, resync, tick, recv, nerr,
                   lastBuilt, errMsg, informerGot, effect, ws, selfClose,
                   timers, nconnect, closedBy, wsRef, wsOpenRef, syncing,
                   nframes, deploymentPodsWsConnRws, rw, deploymentOf, mpc,
                   deploymentPodsWsHasManagers, raced, fatal>>

\* The client of session h goes away.
ClientDisconnect(h) ==
    /\ pc[h] \notin {"init", "done"}
    /\ ~clientGone[h]
    /\ clientGone' = [clientGone EXCEPT ![h] = TRUE]
    /\ UNCHANGED <<pod, epoch, events, faults, pc, conns, isNew, isClosed,
                   sockOpen, podSchemas, hasManager, registered, pending,
                   cbpc, sweepTargets, viewChanged, failedCount, resync, tick,
                   recv, nerr, lastBuilt, errMsg, informerGot, effect, ws,
                   selfClose, timers, nconnect, closedBy, wsRef, wsOpenRef,
                   syncing, nframes, deploymentPodsWsConnRws, rw,
                   deploymentOf, mpc, deploymentPodsWsHasManagers, raced,
                   fatal>>

\* ------------------------------------------------------------- handler

\* The deferred calls of a handler that returns before it took the manager
\* role: cancel (once pollingCtx exists), writeWsError(conn, err), conn.Close.
Return(h, failed_) ==
    /\ pc' = [pc EXCEPT ![h] = "done"]
    /\ nerr' = IF failed_ THEN writeWsError(h) ELSE nerr
    /\ sockOpen' = [sockOpen EXCEPT ![h] = FALSE]

\* ResolveFail with the append moved before the checks.
ResolveFail_Appends(h) ==
    /\ pc[h] = "init"
    /\ pc' = [pc EXCEPT ![h] = "done"]
    /\ nerr' = [nerr EXCEPT ![h] = @ + 1]
    /\ conns' = conns \cup {h}
    /\ UNCHANGED <<pod, epoch, events, faults, isNew, isClosed, sockOpen,
                   clientGone, podSchemas, hasManager, registered, pending,
                   cbpc, sweepTargets, viewChanged, failedCount, resync, tick,
                   recv, lastBuilt, errMsg, informerGot, effect, ws,
                   selfClose, timers, nconnect, closedBy, wsRef, wsOpenRef,
                   syncing, nframes, deploymentPodsWsConnRws, rw,
                   deploymentOf, mpc, deploymentPodsWsHasManagers, raced,
                   fatal>>

\* Upgrade, then GetDeployment or canView fails.
ResolveFail(h) ==
    /\ pc[h] = "init"
    /\ pc' = [pc EXCEPT ![h] = "done"]
    /\ nerr' = [nerr EXCEPT ![h] = @ + 1]
    /\ UNCHANGED <<pod, epoch, events, faults, conns, isNew, isClosed,
                   sockOpen, clientGone, podSchemas, hasManager, registered,
                   pending, cbpc, sweepTargets, viewChanged, failedCount,
                   resync, tick, recv, lastBuilt, errMsg, informerGot, effect,
                   ws, selfClose, timers, nconnect, closedBy, wsRef,
                   wsOpenRef, syncing, nframes, deploymentPodsWsConnRws, rw,
                   deploymentOf, mpc, deploymentPodsWsHasManagers, raced,
                   fatal>>

\* Attach with a lock of its own for every handler, the registry ignored.
Attach_FreshLock(h) ==
    /\ pc[h] = "init"
    /\ deploymentPodsWsConnRws' = NewLock
    /\ rw' = [rw EXCEPT ![h] = NewLock]
    /\ pc' = [pc EXCEPT ![h] = "attached"]
    /\ sockOpen' = [sockOpen EXCEPT ![h] = TRUE]
    /\ isNew' = [isNew EXCEPT ![h] = FALSE]
    /\ isClosed' = [isClosed EXCEPT ![h] = FALSE]
    /\ conns' = conns \cup {h}
    /\ UNCHANGED <<pod, epoch, events, faults, clientGone, podSchemas,
                   hasManager, registered, pending, cbpc, sweepTargets,
                   viewChanged, failedCount, resync, tick, recv, nerr,
                   lastBuilt, errMsg, informerGot, effect, ws, selfClose,
                   timers, nconnect, closedBy, wsRef, wsOpenRef, syncing,
                   nframes, deploymentOf, mpc, deploymentPodsWsHasManagers,
                   raced, fatal>>

\* Upgrade, GetDeployment and canView succeed; under the registry's lock the
\* handler takes the deployment's rw from the registry, creating it when the
\* entry is nil; under rw the new connWrapper is appended to the
\* deployment's connections.
Attach(h) ==
    /\ pc[h] = "init"
    /\ LET l == IF deploymentPodsWsConnRws = 0 THEN NewLock
                ELSE deploymentPodsWsConnRws
       IN /\ Free(l)
          /\ deploymentPodsWsConnRws' = l
          /\ rw' = [rw EXCEPT ![h] = l]
    /\ pc' = [pc EXCEPT ![h] = "attached"]
    /\ sockOpen' = [sockOpen EXCEPT ![h] = TRUE]
    /\ isNew' = [isNew EXCEPT ![h] = FALSE]
    /\ isClosed' = [isClosed EXCEPT ![h] = FALSE]
    /\ conns' = conns \cup {h}
    /\ UNCHANGED <<pod, epoch, events, faults, clientGone, podSchemas,
                   hasManager, registered, pending, cbpc, sweepTargets,
                   viewChanged, failedCount, resync, tick, recv, nerr,
                   lastBuilt, errMsg, informerGot, effect, ws, selfClose,
                   timers, nconnect, closedBy, wsRef, wsOpenRef, syncing,
                   nframes, deploymentOf, mpc, deploymentPodsWsHasManagers,
                   raced, fatal>>

\* GetCluster, GetPodInformer, ListPodsByDeployment or ToKubePodSchemas fails.
AdmitFail(h) ==
    /\ pc[h] = "attached"
    /\ Return(h, TRUE)
    /\ UNCHANGED <<pod, epoch, events, faults, conns, isNew, isClosed,
                   clientGone, podSchemas, hasManager, registered, pending,
                   cbpc, sweepTargets, viewChanged, failedCount, resync, tick,
                   recv, lastBuilt, errMsg, informerGot, effect, ws,
                   selfClose, timers, nconnect, closedBy, wsRef, wsOpenRef,
                   syncing, nframes, deploymentPodsWsConnRws, rw,
                   deploymentOf, mpc, deploymentPodsWsHasManagers, raced,
                   fatal>>

\* The handler lists the pods and builds its first podSchemas; the write of
\* the snapshot starts.
ListPods(h) ==
    /\ pc[h] = "attached"
    /\ pc' = [pc EXCEPT ![h] = "write"]
    /\ podSchemas' = [podSchemas EXCEPT ![h] = View(pod, epoch)]
    /\ UNCHANGED <<pod, epoch, events, faults, conns, isNew, isClosed,
                   sockOpen, clientGone, hasManager, registered, pending,
                   cbpc, sweepTargets, viewChanged, failedCount, resync, tick,
                   recv, nerr, lastBuilt, errMsg, informerGot, effect, ws,
                   selfClose, timers, nconnect, closedBy, wsRef, wsOpenRef,
                   syncing, nframes, deploymentPodsWsConnRws, rw,
                   deploymentOf, mpc, deploymentPodsWsHasManagers, raced,
                   fatal>>

\* SnapshotWrite with the snapshot written to every session of the set.
SnapshotWrite_Broadcast(h) ==
    /\ pc[h] = "write"
    /\ IF WriteOK(h)
       THEN /\ pc' = [pc EXCEPT ![h] = "wait"]
            /\ recv' = [s \in Sessions |->
                          IF s = h \/ (s \in conns /\ WriteOK(s))
                          THEN podSchemas[h] ELSE recv[s]]
            /\ isNew' = [isNew EXCEPT ![h] = FALSE]
            /\ UNCHANGED <<nerr, sockOpen>>
       ELSE /\ Return(h, TRUE)
            /\ UNCHANGED <<recv, isNew>>
    /\ UNCHANGED <<pod, epoch, events, faults, conns, isClosed, clientGone,
                   podSchemas, hasManager, registered, pending, cbpc,
                   sweepTargets, viewChanged, failedCount, resync, tick,
                   lastBuilt, errMsg, informerGot, effect, ws, selfClose,
                   timers, nconnect, closedBy, wsRef, wsOpenRef, syncing,
                   nframes, deploymentPodsWsConnRws, rw, deploymentOf, mpc,
                   deploymentPodsWsHasManagers, raced, fatal>>

\* connW.Conn.WriteJSON of the snapshot returns: on success IsNew is cleared
\* and the reader goroutine started, on failure the handler returns the error.
SnapshotWrite(h) ==
    /\ pc[h] = "write"
    /\ IF WriteOK(h)
       THEN /\ pc' = [pc EXCEPT ![h] = "wait"]
            /\ recv' = [recv EXCEPT ![h] = podSchemas[h]]
            /\ isNew' = [isNew EXCEPT ![h] = FALSE]
            /\ UNCHANGED <<nerr, sockOpen>>
       ELSE /\ Return(h, TRUE)
            /\ UNCHANGED <<recv, isNew>>
    /\ UNCHANGED <<pod, epoch, events, faults, conns, isClosed, clientGone,
                   podSchemas, hasManager, registered, pending, cbpc,
                   sweepTargets, viewChanged, failedCount, resync, tick,
                   lastBuilt, errMsg, informerGot, effect, ws, selfClose,
                   timers, nconnect, closedBy, wsRef, wsOpenRef, syncing,
                   nframes, deploymentPodsWsConnRws, rw, deploymentOf, mpc,
                   deploymentPodsWsHasManagers, raced, fatal>>

\* The waiting loop finds pollingCtx done and returns nil.
WaitCancelled(h) ==
    /\ pc[h] = "wait"
    /\ Cancelled(h)
    /\ Return(h, FALSE)
    /\ UNCHANGED <<pod, epoch, events, faults, conns, isNew, isClosed,
                   clientGone, podSchemas, hasManager, registered, pending,
                   cbpc, sweepTargets, viewChanged, failedCount, resync, tick,
                   recv, lastBuilt, errMsg, informerGot, effect, ws,
                   selfClose, timers, nconnect, closedBy, wsRef, wsOpenRef,
                   syncing, nframes, deploymentPodsWsConnRws, rw,
                   deploymentOf, mpc, deploymentPodsWsHasManagers, raced,
                   fatal>>

\* The waiting loop reads hasManager = false under rw.RLock and breaks.
\* (With hasManager = true it waits for the ticker and looks again.)
WaitBreak(h) ==
    /\ pc[h] = "wait"
    /\ ~Cancelled(h)
    /\ Free(rw[h])
    /\ ~hasManager
    /\ pc' = [pc EXCEPT ![h] = "claim"]
    /\ UNCHANGED <<pod, epoch, events, faults, conns, isNew, isClosed,
                   sockOpen, clientGone, podSchemas, hasManager, registered,
                   pending, cbpc, sweepTargets, viewChanged, failedCount,
                   resync, tick, recv, nerr, lastBuilt, errMsg, informerGot,
                   effect, ws, selfClose, timers, nconnect, closedBy, wsRef,
                   wsOpenRef, syncing, nframes, deploymentPodsWsConnRws, rw,
                   deploymentOf, mpc, deploymentPodsWsHasManagers, raced,
                   fatal>>

\* rw.Lock; hasManager = true; rw.Unlock; failedCount created;
\* informer.AddEventHandler: the running informer queues one add
\* notification per pod of its store for the new listener.
BecomeManager(h) ==
    /\ pc[h] = "claim"
    /\ Free(rw[h])
    /\ hasManager' = TRUE
    /\ failedCount' = [failedCount EXCEPT ![h] = 0]
    /\ registered' = [registered EXCEPT ![h] = TRUE]
    /\ pending' = [pending EXCEPT ![h] = IF checkPod(pod) THEN @ + 1 ELSE @]
    /\ pc' = [pc EXCEPT ![h] = "manager"]
    /\ UNCHANGED <<pod, epoch, events, faults, conns, isNew, isClosed,
                   sockOpen, clientGone, podSchemas, cbpc, sweepTargets,
                   viewChanged, resync, tick, recv, nerr, lastBuilt, errMsg,
                   informerGot, effect, ws, selfClose, timers, nconnect,
                   closedBy, wsRef, wsOpenRef, syncing, nframes,
                   deploymentPodsWsConnRws, rw, deploymentOf, mpc,
                   deploymentPodsWsHasManagers, raced, fatal>>

\* One turn of the final loop: pollingCtx is not done, failedCount is within
\* maxFailed, the ticker fires.
ManagerTick(h) ==
    /\ pc[h] = "manager"
    /\ ~Cancelled(h)
    /\ failedCount[h] <= maxFailed
    /\ tick' = 1 - tick
    /\ UNCHANGED <<pod, epoch, events, faults, pc, conns, isNew, isClosed,
                   sockOpen, clientGone, podSchemas, hasManager, registered,
                   pending, cbpc, sweepTargets, viewChanged, failedCount,
                   resync, recv, nerr, lastBuilt, errMsg, informerGot, effect,
                   ws, selfClose, timers, nconnect, closedBy, wsRef,
                   wsOpenRef, syncing, nframes, deploymentPodsWsConnRws, rw,
                   deploymentOf, mpc, deploymentPodsWsHasManagers, raced,
                   fatal>>

\* The final loop ends: pollingCtx is done, or failedCount exceeds maxFailed
\* (err = "ws pods failed too frequently!").
ManagerStop(h) ==
    /\ pc[h] = "manager"
    /\ Cancelled(h) \/ failedCount[h] > maxFailed
    /\ pc' = [pc EXCEPT ![h] = IF Cancelled(h) THEN "exit_ok" ELSE "exit_err"]
    /\ UNCHANGED <<pod, epoch, events, faults, conns, isNew, isClosed,
                   sockOpen, clientGone, podSchemas, hasManager, registered,
                   pending, cbpc, sweepTargets, viewChanged, failedCount,
                   resync, tick, recv, nerr, lastBuilt, errMsg, informerGot,
                   effect, ws, selfClose, timers, nconnect, closedBy, wsRef,
                   wsOpenRef, syncing, nframes, deploymentPodsWsConnRws, rw,
                   deploymentOf, mpc, deploymentPodsWsHasManagers, raced,
                   fatal>>

\* The deferred calls of a manager: under rw hasManager = false, then cancel,
\* writeWsError(conn, err), conn.Close.
ManagerExit(h) ==
    /\ pc[h] \in {"exit_ok", "exit_err"}
    /\ Free(rw[h])
    /\ hasManager' = FALSE
    /\ Return(h, pc[h] = "exit_err")
    /\ UNCHANGED <<pod, epoch, events, faults, conns, isNew, isClosed,
                   clientGone, podSchemas, registered, pending, cbpc,
                   sweepTargets, viewChanged, failedCount, resync, tick, recv,
                   lastBuilt, errMsg, informerGot, effect, ws, selfClose,
                   timers, nconnect, closedBy, wsRef, wsOpenRef, syncing,
                   nframes, deploymentPodsWsConnRws, rw, deploymentOf, mpc,
                   deploymentPodsWsHasManagers, raced, fatal>>

\* ---------------------------------------------- listener goroutine: send_

\* A queued notification reaches a callback whose pollingCtx is done: send
\* returns nil at once and writeWsError(conn, nil) writes nothing.
SendSkip(h) ==
    /\ cbpc[h] = "idle"
    /\ pending[h] > 0
    /\ Cancelled(h)
    /\ pending' = [pending EXCEPT ![h] = @ - 1]
    /\ UNCHANGED <<pod, epoch, events, faults, pc, conns, isNew, isClosed,
                   sockOpen, clientGone, podSchemas, hasManager, registered,
                   cbpc, sweepTargets, viewChanged, failedCount, resync, tick,
                   recv, nerr, lastBuilt, errMsg, informerGot, effect, ws,
                   selfClose, timers, nconnect, closedBy, wsRef, wsOpenRef,
                   syncing, nframes, deploymentPodsWsConnRws, rw,
                   deploymentOf, mpc, deploymentPodsWsHasManagers, raced,
                   fatal>>

\* send takes rw; ListPodsByDeployment or ToKubePodSchemas fails; send
\* returns the error (rw released) and send_ is about to write it.
SendBuildFail(h) ==
    /\ cbpc[h] = "idle"
    /\ pending[h] > 0
    /\ ~Cancelled(h)
    /\ Free(rw[h])
    /\ faults < MaxFaults
    /\ faults' = faults + 1
    /\ pending' = [pending EXCEPT ![h] = @ - 1]
    /\ cbpc' = [cbpc EXCEPT ![h] = "err"]
    /\ UNCHANGED <<pod, epoch, events, pc, conns, isNew, isClosed, sockOpen,
                   clientGone, podSchemas, hasManager, registered,
                   sweepTargets, viewChanged, failedCount, resync, tick, recv,
                   nerr, lastBuilt, errMsg, informerGot, effect, ws,
                   selfClose, timers, nconnect, closedBy, wsRef, wsOpenRef,
                   syncing, nframes, deploymentPodsWsConnRws, rw,
                   deploymentOf, mpc, deploymentPodsWsHasManagers, raced,
                   fatal>>

\* The sessions of the loaded connections that send writes to.
Targets(changed) ==
    {s \in conns : ~isClosed[s] /\ (isNew[s] \/ changed)}

\* send takes rw, loads the connections, builds newPodSchemas, compares it
\* with the handler's podSchemas, starts the re-sync goroutine on a change,
\* overwrites podSchemas and starts one write per target.
\* A re-sync goroutine that succeeds touches nothing of this state, so only
\* the ones that fail are kept until they end: in resync when
\* DeploymentService.Get fails, in syncing when SyncStatus fails.
SendBegin(h) ==
    /\ cbpc[h] = "idle"
    /\ pending[h] > 0
    /\ ~Cancelled(h)
    /\ Free(rw[h])
    /\ pending' = [pending EXCEPT ![h] = @ - 1]
    /\ LET newPodSchemas == View(pod, epoch)
           changed == ~DeepEqual(podSchemas[h], newPodSchemas)
       IN /\ viewChanged' = changed
          /\ \E outcome \in {"ok"} \cup (IF changed /\ faults < MaxFaults
                                          THEN {"get", "sync"} ELSE {}) :
                /\ resync' = [resync EXCEPT ![h] =
                                IF outcome = "get" THEN @ + 1 ELSE @]
                /\ syncing' = [syncing EXCEPT ![h] =
                                 IF outcome = "sync" THEN @ + 1 ELSE @]
                /\ faults' = IF outcome = "ok" THEN faults ELSE faults + 1
          /\ podSchemas' = [podSchemas EXCEPT ![h] = newPodSchemas]
          /\ lastBuilt' = newPodSchemas
          /\ sweepTargets' = Targets(changed)
    /\ cbpc' = [cbpc EXCEPT ![h] = "sweep"]
    /\ UNCHANGED <<pod, epoch, events, pc, conns, isNew, isClosed, sockOpen,
                   clientGone, hasManager, registered, failedCount, tick,
                   recv, nerr, errMsg, informerGot, effect, ws, selfClose,
                   timers, nconnect, closedBy, wsRef, wsOpenRef, nframes,
                   deploymentPodsWsConnRws, rw, deploymentOf, mpc,
                   deploymentPodsWsHasManagers, raced, fatal>>

\* What the closure of target s reads in "if err != nil" after its own
\* "err = conn.Conn.WriteJSON(...)": err is one variable of send shared by
\* all closures of the errgroup, so the value read is the result of any of
\* the writes of this send.
ErrSeen(s) == {WriteOK(t) : t \in sweepTargets}

\* SendEnd without failedCount.Store(0).
SendEnd_KeepsCount(h) ==
    /\ cbpc[h] = "sweep"
    /\ \E seenOK \in [sweepTargets -> BOOLEAN] :
        /\ \A s \in sweepTargets : seenOK[s] \in ErrSeen(s)
        /\ LET newConns == {s \in conns : ~isClosed[s] /\ s \notin sweepTargets}
                             \cup {s \in sweepTargets : seenOK[s]}
               shut == {s \in sweepTargets : ~seenOK[s]}
               got == {s \in sweepTargets : WriteOK(s)}
           IN /\ conns' = newConns
              /\ isClosed' = [s \in Sessions |-> isClosed[s] \/ s \in shut]
              /\ sockOpen' = [s \in Sessions |-> sockOpen[s] /\ s \notin shut]
              /\ isNew' = [s \in Sessions |->
                             isNew[s] /\ ~(s \in sweepTargets /\ seenOK[s])]
              /\ recv' = [s \in Sessions |->
                            IF s \in got THEN podSchemas[h] ELSE recv[s]]
    /\ sweepTargets' = {}
    /\ viewChanged' = FALSE
    /\ cbpc' = [cbpc EXCEPT ![h] = "idle"]
    /\ UNCHANGED <<pod, epoch, events, faults, pc, clientGone, podSchemas,
                   hasManager, registered, pending, failedCount, resync, tick,
                   nerr, lastBuilt, errMsg, informerGot, effect, ws,
                   selfClose, timers, nconnect, closedBy, wsRef, wsOpenRef,
                   syncing, nframes, deploymentPodsWsConnRws, rw,
                   deploymentOf, mpc, deploymentPodsWsHasManagers, raced,
                   fatal>>

\* All writes of the send have returned (eg.Wait): a closure that read an
\* error closed its connection and set IsClosed, the others cleared IsNew
\* and joined newConns; newConns is stored, failedCount reset, rw released.
SendEnd(h) ==
    /\ cbpc[h] = "sweep"
    /\ \E seenOK \in [sweepTargets -> BOOLEAN] :
        /\ \A s \in sweepTargets : seenOK[s] \in ErrSeen(s)
        /\ LET newConns == {s \in conns : ~isClosed[s] /\ s \notin sweepTargets}
                             \cup {s \in sweepTargets : seenOK[s]}
               shut == {s \in sweepTargets : ~seenOK[s]}
               got == {s \in sweepTargets : WriteOK(s)}
           IN /\ conns' = newConns
              /\ isClosed' = [s \in Sessions |-> isClosed[s] \/ s \in shut]
              /\ sockOpen' = [s \in Sessions |-> sockOpen[s] /\ s \notin shut]
              /\ isNew' = [s \in Sessions |->
                             isNew[s] /\ ~(s \in sweepTargets /\ seenOK[s])]
              /\ recv' = [s \in Sessions |->
                            IF s \in got THEN podSchemas[h] ELSE recv[s]]
    /\ failedCount' = [failedCount EXCEPT ![h] = 0]
    /\ sweepTargets' = {}
    /\ viewChanged' = FALSE
    /\ cbpc' = [cbpc EXCEPT ![h] = "idle"]
    /\ UNCHANGED <<pod, epoch, events, faults, pc, clientGone, podSchemas,
                   hasManager, registered, pending, resync, tick, nerr,
                   lastBuilt, errMsg, informerGot, effect, ws, selfClose,
                   timers, nconnect, closedBy, wsRef, wsOpenRef, syncing,
                   nframes, deploymentPodsWsConnRws, rw, deploymentOf, mpc,
                   deploymentPodsWsHasManagers, raced, fatal>>

\* send_ after a failed send: writeWsError(conn, err) on the handler's own
\* connection, then failed().
SendFailed(h) ==
    /\ cbpc[h] = "err"
    /\ nerr' = writeWsError(h)
    /\ failedCount' = [failedCount EXCEPT ![h] = @ + 1]
    /\ cbpc' = [cbpc EXCEPT ![h] = "idle"]
    /\ UNCHANGED <<pod, epoch, events, faults, pc, conns, isNew, isClosed,
                   sockOpen, clientGone, podSchemas, hasManager, registered,
                   pending, sweepTargets, viewChanged, resync, tick, recv,
                   lastBuilt, errMsg, informerGot, effect, ws, selfClose,
                   timers, nconnect, closedBy, wsRef, wsOpenRef, syncing,
                   nframes, deploymentPodsWsConnRws, rw, deploymentOf, mpc,
                   deploymentPodsWsHasManagers, raced, fatal>>

\* ------------------------------------------- detached status re-sync

\* DeploymentService.Get has failed: writeWsError(conn, err) on the handler's
\* connection, then failed().
ResyncFailed(h) ==
    /\ resync[h] > 0
    /\ resync' = [resync EXCEPT ![h] = @ - 1]
    /\ nerr' = writeWsError(h)
    /\ failedCount' = [failedCount EXCEPT ![h] = @ + 1]
    /\ UNCHANGED <<pod, epoch, events, faults, pc, conns, isNew, isClosed,
                   sockOpen, clientGone, podSchemas, hasManager, registered,
                   pending, cbpc, sweepTargets, viewChanged, tick, recv,
                   lastBuilt, errMsg, informerGot, effect, ws, selfClose,
                   timers, nconnect, closedBy, wsRef, wsOpenRef, syncing,
                   nframes, deploymentPodsWsConnRws, rw, deploymentOf, mpc,
                   deploymentPodsWsHasManagers, raced, fatal>>

\* SyncStatus has failed: its results are discarded ("_, _ ="), nothing is
\* written and failed() is not called.
ResyncSyncFailed(h) ==
    /\ syncing[h] > 0
    /\ syncing' = [syncing EXCEPT ![h] = @ - 1]
    /\ UNCHANGED <<pod, epoch, events, faults, pc, conns, isNew, isClosed,
                   sockOpen, clientGone, podSchemas, hasManager, registered,
                   pending, cbpc, sweepTargets, viewChanged, failedCount,
                   resync, tick, recv, nerr, lastBuilt, errMsg, informerGot,
                   effect, ws, selfClose, timers, nconnect, closedBy, wsRef,
                   wsOpenRef, nframes, deploymentPodsWsConnRws, rw,
                   deploymentOf, mpc, deploymentPodsWsHasManagers, raced,
                   fatal>>

\* ------------------------------------------------------------ the system

Next ==
    \/ PodEvent
    \/ \E h \in Sessions :
        \/ ClientDisconnect(h)
        \/ ResolveFail(h)
        \/ Attach(h)
        \/ AdmitFail(h)
        \/ ListPods(h)
        \/ SnapshotWrite(h)
        \/ WaitCancelled(h)
        \/ WaitBreak(h)
        \/ BecomeManager(h)
        \/ ManagerTick(h)
        \/ ManagerStop(h)
        \/ ManagerExit(h)
        \/ SendSkip(h)
        \/ SendBuildFail(h)
        \/ SendBegin(h)
        \/ SendEnd(h)
        \/ SendFailed(h)
        \/ ResyncFailed(h)
        \/ ResyncSyncFailed(h)

Spec == Init /\ [][Next]_vars


\* ------------------------------------------- a manager near the threshold

\* The deployment after its first session has been managing for a while: the
\* session was admitted with the current view, took the manager role and
\* registered its callbacks; its last sends failed (one error frame written
\* to its own connection per failure), so that failedCount stands just below
\* or at maxFailed; one notification is queued for its listener.  The other
\* requests have not been made yet.
InitThreshold ==
    /\ pod \in PodStates
    /\ epoch = 0
    /\ events = 0
    /\ faults = 0
    /\ pc = [h \in Sessions |-> IF h = 1 THEN "manager" ELSE "init"]
    /\ conns = {1}
    /\ isNew = [h \in Sessions |-> FALSE]
    /\ isClosed = [h \in Sessions |-> FALSE]
    /\ sockOpen = [h \in Sessions |-> h = 1]
    /\ clientGone = [h \in Sessions |-> FALSE]
    /\ podSchemas = [h \in Sessions |-> IF h = 1 THEN View(pod, 0) ELSE Nil]
    /\ hasManager = TRUE
    /\ registered = [h \in Sessions |-> h = 1]
    /\ pending = [h \in Sessions |-> IF h = 1 THEN 1 ELSE 0]
    /\ cbpc = [h \in Sessions |-> "idle"]
    /\ sweepTargets = {}
    /\ viewChanged = FALSE
    /\ \E n \in {maxFailed - 1, maxFailed} :
        /\ failedCount = [h \in Sessions |-> IF h = 1 THEN n ELSE 0]
        /\ nerr = [h \in Sessions |-> IF h = 1 THEN n ELSE 0]
    /\ resync = [h \in Sessions |-> 0]
    /\ syncing = [h \in Sessions |-> 0]
    /\ tick = 0
    /\ recv = [h \in Sessions |-> IF h = 1 THEN View(pod, 0) ELSE Nil]
    /\ lastBuilt = View(pod, 0)
    /\ errMsg = [h \in Sessions |-> "none"]
    /\ informerGot = [h \in Sessions |-> FALSE]
    /\ nframes = [h \in Sessions |-> 0]
    /\ deploymentPodsWsConnRws = 1
    /\ rw = [h \in Sessions |-> IF h = 1 THEN 1 ELSE 0]
    /\ deploymentOf = [h \in Sessions |-> 1]
    /\ mpc = [h \in Sessions |-> "wait"]
    /\ deploymentPodsWsHasManagers = [d \in Deployments |-> FALSE]
    /\ raced = [h \in Sessions |-> FALSE]
    /\ fatal = FALSE
    /\ effect = [e \in Effects |-> "idle"]
    /\ ws = [e \in Effects |-> "none"]
    /\ selfClose = [e \in Effects |-> FALSE]
    /\ timers = [e \in Effects |-> 0]
    /\ nconnect = [e \in Effects |-> 0]
    /\ closedBy = [e \in Effects |-> "none"]
    /\ wsRef = 0
    /\ wsOpenRef = FALSE

SpecThreshold == InitThreshold /\ [][Next]_vars

\* ------------------------------------------------- the cluster pod stream
\* clusterController.WsPods: pc runs init, parse, informer, first, register,
\* loop, done.  The handler shares nothing with the other sessions.

\* The messages of the errors the handler can return after its deferred
\* error frame is in place.
ParseError == "couldn't parse the selector"
InformerError == "get pod informer"

\* pollingCtx is done: the reader goroutine (started after GetPodInformer)
\* saw a read error or a close message and called cancel().
ClusterCancelled(h) ==
    /\ pc[h] \in {"first", "register", "loop"}
    /\ clientGone[h] \/ ~sockOpen[h]

\* The deferred function of the handler with err # nil: one error frame
\* carrying err.Error(), if the write succeeds.
ClusterErrorFrame(h, msg) ==
    /\ nerr' = [nerr EXCEPT ![h] = IF WriteOK(h) THEN @ + 1 ELSE @]
    /\ errMsg' = [errMsg EXCEPT ![h] = IF WriteOK(h) THEN msg ELSE @]

\* Upgrade, then GetCluster or canView fails: the handler returns before its
\* deferred error frame is set up; only conn.Close runs.
ClusterResolveFail(h) ==
    /\ pc[h] = "init"
    /\ pc' = [pc EXCEPT ![h] = "done"]
    /\ UNCHANGED <<pod, epoch, events, faults, conns, isNew, isClosed,
                   sockOpen, clientGone, podSchemas, hasManager, registered,
                   pending, cbpc, sweepTargets, viewChanged, failedCount,
                   resync, tick, recv, nerr, lastBuilt, errMsg, informerGot,
                   effect, ws, selfClose, timers, nconnect, closedBy, wsRef,
                   wsOpenRef, syncing, nframes, deploymentPodsWsConnRws, rw,
                   deploymentOf, mpc, deploymentPodsWsHasManagers, raced,
                   fatal>>

\* Upgrade, GetCluster and canView succeed; the error frame is deferred.
ClusterAdmit(h) ==
    /\ pc[h] = "init"
    /\ pc' = [pc EXCEPT ![h] = "parse"]
    /\ sockOpen' = [sockOpen EXCEPT ![h] = TRUE]
    /\ UNCHANGED <<pod, epoch, events, faults, conns, isNew, isClosed,
                   clientGone, podSchemas, hasManager, registered, pending,
                   cbpc, sweepTargets, viewChanged, failedCount, resync, tick,
                   recv, nerr, lastBuilt, errMsg, informerGot, effect, ws,
                   selfClose, timers, nconnect, closedBy, wsRef, wsOpenRef,
                   syncing, nframes, deploymentPodsWsConnRws, rw,
                   deploymentOf, mpc, deploymentPodsWsHasManagers, raced,
                   fatal>>

\* ClusterParseFail with the error frame deferred only after the parse.
ClusterParseFail_NoFrame(h) ==
    /\ pc[h] = "parse"
    /\ pc' = [pc EXCEPT ![h] = "done"]
    /\ sockOpen' = [sockOpen EXCEPT ![h] = FALSE]
    /\ UNCHANGED <<pod, epoch, events, faults, conns, isNew, isClosed,
                   clientGone, podSchemas, hasManager, registered, pending,
                   cbpc, sweepTargets, viewChanged, failedCount, resync, tick,
                   recv, nerr, lastBuilt, errMsg, informerGot, effect, ws,
                   selfClose, timers, nconnect, closedBy, wsRef, wsOpenRef,
                   syncing, nframes, deploymentPodsWsConnRws, rw,
                   deploymentOf, mpc, deploymentPodsWsHasManagers, raced,
                   fatal>>

\* labels.Parse fails on the selector query: return; the deferred function
\* writes the error frame, conn.Close.
ClusterParseFail(h) ==
    /\ pc[h] = "parse"
    /\ pc' = [pc EXCEPT ![h] = "done"]
    /\ ClusterErrorFrame(h, ParseError)
    /\ sockOpen' = [sockOpen EXCEPT ![h] = FALSE]
    /\ UNCHANGED <<pod, epoch, events, faults, conns, isNew, isClosed,
                   clientGone, podSchemas, hasManager, registered, pending,
                   cbpc, sweepTargets, viewChanged, failedCount, resync, tick,
                   recv, lastBuilt, informerGot, effect, ws, selfClose,
                   timers, nconnect, closedBy, wsRef, wsOpenRef, syncing,
                   nframes, deploymentPodsWsConnRws, rw, deploymentOf, mpc,
                   deploymentPodsWsHasManagers, raced, fatal>>

\* labels.Parse succeeds.
ClusterParse(h) ==
    /\ pc[h] = "parse"
    /\ pc' = [pc EXCEPT ![h] = "informer"]
    /\ UNCHANGED <<pod, epoch, events, faults, conns, isNew, isClosed,
                   sockOpen, clientGone, podSchemas, hasManager, registered,
                   pending, cbpc, sweepTargets, viewChanged, failedCount,
                   resync, tick, recv, nerr, lastBuilt, errMsg, informerGot,
                   effect, ws, selfClose, timers, nconnect, closedBy, wsRef,
                   wsOpenRef, syncing, nframes, deploymentPodsWsConnRws, rw,
                   deploymentOf, mpc, deploymentPodsWsHasManagers, raced,
                   fatal>>

\* GetPodInformer fails: return with the error frame.
ClusterInformerFail(h) ==
    /\ pc[h] = "informer"
    /\ faults < MaxFaults
    /\ faults' = faults + 1
    /\ informerGot' = [informerGot EXCEPT ![h] = TRUE]
    /\ pc' = [pc EXCEPT ![h] = "done"]
    /\ ClusterErrorFrame(h, InformerError)
    /\ sockOpen' = [sockOpen EXCEPT ![h] = FALSE]
    /\ UNCHANGED <<pod, epoch, events, conns, isNew, isClosed, clientGone,
                   podSchemas, hasManager, registered, pending, cbpc,
                   sweepTargets, viewChanged, failedCount, resync, tick, recv,
                   lastBuilt, effect, ws, selfClose, timers, nconnect,
                   closedBy, wsRef, wsOpenRef, syncing, nframes,
                   deploymentPodsWsConnRws, rw, deploymentOf, mpc,
                   deploymentPodsWsHasManagers, raced, fatal>>

\* GetPodInformer succeeds; the reader goroutine starts; failedCount is
\* created.
ClusterStart(h) ==
    /\ pc[h] = "informer"
    /\ informerGot' = [informerGot EXCEPT ![h] = TRUE]
    /\ failedCount' = [failedCount EXCEPT ![h] = 0]
    /\ pc' = [pc EXCEPT ![h] = "first"]
    /\ UNCHANGED <<pod, epoch, events, faults, conns, isNew, isClosed,
                   sockOpen, clientGone, podSchemas, hasManager, registered,
                   pending, cbpc, sweepTargets, viewChanged, resync, tick,
                   recv, nerr, lastBuilt, errMsg, effect, ws, selfClose,
                   timers, nconnect, closedBy, wsRef, wsOpenRef, syncing,
                   nframes, deploymentPodsWsConnRws, rw, deploymentOf, mpc,
                   deploymentPodsWsHasManagers, raced, fatal>>

\* The effect of one call of send() for session h: the view is built from
\* the lister and written to the session's connection; fail() when building
\* or writing fails.  buildFails is whether ListPodsBySelector or
\* ToKubePodSchemas fails.  Nothing resets failedCount.
ClusterSendEffect(h, buildFails) ==
    /\ faults' = IF buildFails THEN faults + 1 ELSE faults
    /\ IF ~buildFails /\ WriteOK(h)
       THEN /\ recv' = [recv EXCEPT ![h] = View(pod, epoch)]
            /\ nframes' = [nframes EXCEPT ![h] = @ + 1]
            /\ UNCHANGED failedCount
       ELSE /\ failedCount' = [failedCount EXCEPT ![h] = @ + 1]
            /\ UNCHANGED <<recv, nframes>>

\* The handler's own first send().
ClusterFirstSend(h) ==
    /\ pc[h] = "first"
    /\ \E buildFails \in {FALSE} \cup {faults < MaxFaults} :
          ClusterSendEffect(h, buildFails)
    /\ pc' = [pc EXCEPT ![h] = "register"]
    /\ UNCHANGED <<pod, epoch, events, conns, isNew, isClosed, sockOpen,
                   clientGone, podSchemas, hasManager, registered, pending,
                   cbpc, sweepTargets, viewChanged, resync, tick, nerr,
                   lastBuilt, errMsg, informerGot, effect, ws, selfClose,
                   timers, nconnect, closedBy, wsRef, wsOpenRef, syncing,
                   deploymentPodsWsConnRws, rw, deploymentOf, mpc,
                   deploymentPodsWsHasManagers, raced, fatal>>

\* informer.AddEventHandler: the running informer queues one add
\* notification per pod of its store for the new listener.
ClusterRegister(h) ==
    /\ pc[h] = "register"
    /\ registered' = [registered EXCEPT ![h] = TRUE]
    /\ pending' = [pending EXCEPT ![h] = IF checkPod(pod) THEN @ + 1 ELSE @]
    /\ pc' = [pc EXCEPT ![h] = "loop"]
    /\ UNCHANGED <<pod, epoch, events, faults, conns, isNew, isClosed,
                   sockOpen, clientGone, podSchemas, hasManager, cbpc,
                   sweepTargets, viewChanged, failedCount, resync, tick, recv,
                   nerr, lastBuilt, errMsg, informerGot, effect, ws,
                   selfClose, timers, nconnect, closedBy, wsRef, wsOpenRef,
                   syncing, nframes, deploymentPodsWsConnRws, rw,
                   deploymentOf, mpc, deploymentPodsWsHasManagers, raced,
                   fatal>>

\* The listener goroutine runs one queued callback: send(), whatever the
\* state of pollingCtx or of the handler.
ClusterCallback(h) ==
    /\ pending[h] > 0
    /\ pending' = [pending EXCEPT ![h] = @ - 1]
    /\ \E buildFails \in {FALSE} \cup {faults < MaxFaults} :
          ClusterSendEffect(h, buildFails)
    /\ UNCHANGED <<pod, epoch, events, pc, conns, isNew, isClosed, sockOpen,
                   clientGone, podSchemas, hasManager, registered, cbpc,
                   sweepTargets, viewChanged, resync, tick, nerr, lastBuilt,
                   errMsg, informerGot, effect, ws, selfClose, timers,
                   nconnect, closedBy, wsRef, wsOpenRef, syncing,
                   deploymentPodsWsConnRws, rw, deploymentOf, mpc,
                   deploymentPodsWsHasManagers, raced, fatal>>

\* One turn of the final loop: pollingCtx is not done, failedCount is within
\* maxFailed, the ticker fires.
ClusterTick(h) ==
    /\ pc[h] = "loop"
    /\ ~ClusterCancelled(h)
    /\ failedCount[h] <= maxFailed
    /\ tick' = 1 - tick
    /\ UNCHANGED <<pod, epoch, events, faults, pc, conns, isNew, isClosed,
                   sockOpen, clientGone, podSchemas, hasManager, registered,
                   pending, cbpc, sweepTargets, viewChanged, failedCount,
                   resync, recv, nerr, lastBuilt, errMsg, informerGot, effect,
                   ws, selfClose, timers, nconnect, closedBy, wsRef,
                   wsOpenRef, syncing, nframes, deploymentPodsWsConnRws, rw,
                   deploymentOf, mpc, deploymentPodsWsHasManagers, raced,
                   fatal>>

\* The final loop ends (pollingCtx done, or failedCount above maxFailed) and
\* the handler returns: err is nil, so the deferred function writes
\* nothing; conn.Close.
ClusterStop(h) ==
    /\ pc[h] = "loop"
    /\ ClusterCancelled(h) \/ failedCount[h] > maxFailed
    /\ pc' = [pc EXCEPT ![h] = "done"]
    /\ sockOpen' = [sockOpen EXCEPT ![h] = FALSE]
    /\ UNCHANGED <<pod, epoch, events, faults, conns, isNew, isClosed,
                   clientGone, podSchemas, hasManager, registered, pending,
                   cbpc, sweepTargets, viewChanged, failedCount, resync, tick,
                   recv, nerr, lastBuilt, errMsg, informerGot, effect, ws,
                   selfClose, timers, nconnect, closedBy, wsRef, wsOpenRef,
                   syncing, nframes, deploymentPodsWsConnRws, rw,
                   deploymentOf, mpc, deploymentPodsWsHasManagers, raced,
                   fatal>>

ClusterNext ==
    \/ PodEvent
    \/ \E h \in Sessions :
        \/ ClientDisconnect(h)
        \/ ClusterResolveFail(h)
        \/ ClusterAdmit(h)
        \/ ClusterParseFail(h)
        \/ ClusterParse(h)
        \/ ClusterInformerFail(h)
        \/ ClusterStart(h)
        \/ ClusterFirstSend(h)
        \/ ClusterRegister(h)
        \/ ClusterCallback(h)
        \/ ClusterTick(h)
        \/ ClusterStop(h)

ClusterSpec == Init /\ [][ClusterNext]_vars

\* ------------------------------------------------- the event viewer
\* KubePodEvents: each run of the effect has its own ws and selfClose; the
\* runs follow one another (the cleanup of a run precedes the next run).
\* ws[e] is none, connecting, open, closing (close() was called, the close
\* event has not been dispatched), lost (the server or the network ended
\* the connection, the close event has not been dispatched) or closed
\* (onclose has run).

\* connect(): a new WebSocket replaces ws, selfClose is cleared.
connect(e) ==
    /\ ws' = [ws EXCEPT ![e] = "connecting"]
    /\ selfClose' = [selfClose EXCEPT ![e] = FALSE]
    /\ closedBy' = [closedBy EXCEPT ![e] = "none"]
    /\ nconnect' = [nconnect EXCEPT ![e] = @ + 1]

\* The previous run of the effect, if any, has been cleaned up.
PreviousDone(e) ==
    \A d \in Effects : d = e - 1 => effect[d] \in {"cleaned", "off"}

\* The effect runs with open false: it returns undefined.
EffectOff(e) ==
    /\ effect[e] = "idle"
    /\ PreviousDone(e)
    /\ effect' = [effect EXCEPT ![e] = "off"]
    /\ UNCHANGED <<pod, epoch, events, faults, pc, conns, isNew, isClosed,
                   sockOpen, clientGone, podSchemas, hasManager, registered,
                   pending, cbpc, sweepTargets, viewChanged, failedCount,
                   resync, tick, recv, nerr, lastBuilt, errMsg, informerGot,
                   ws, selfClose, timers, nconnect, closedBy, wsRef,
                   wsOpenRef, syncing, nframes, deploymentPodsWsConnRws, rw,
                   deploymentOf, mpc, deploymentPodsWsHasManagers, raced,
                   fatal>>

\* The effect runs with open true: connect().
EffectRun(e) ==
    /\ effect[e] = "idle"
    /\ PreviousDone(e)
    /\ effect' = [effect EXCEPT ![e] = "active"]
    /\ connect(e)
    /\ UNCHANGED <<pod, epoch, events, faults, pc, conns, isNew, isClosed,
                   sockOpen, clientGone, podSchemas, hasManager, registered,
                   pending, cbpc, sweepTargets, viewChanged, failedCount,
                   resync, tick, recv, nerr, lastBuilt, errMsg, informerGot,
                   timers, wsRef, wsOpenRef, syncing, nframes,
                   deploymentPodsWsConnRws, rw, deploymentOf, mpc,
                   deploymentPodsWsHasManagers, raced, fatal>>

\* ws.onopen.
OnOpen(e) ==
    /\ ws[e] = "connecting"
    /\ ws' = [ws EXCEPT ![e] = "open"]
    /\ wsOpenRef' = TRUE
    /\ wsRef' = e
    /\ UNCHANGED <<pod, epoch, events, faults, pc, conns, isNew, isClosed,
                   sockOpen, clientGone, podSchemas, hasManager, registered,
                   pending, cbpc, sweepTargets, viewChanged, failedCount,
                   resync, tick, recv, nerr, lastBuilt, errMsg, informerGot,
                   effect, selfClose, timers, nconnect, closedBy, syncing,
                   nframes, deploymentPodsWsConnRws, rw, deploymentOf, mpc,
                   deploymentPodsWsHasManagers, raced, fatal>>

\* The server closes the connection, or the connection fails: the browser
\* queues the close event.
ServerClose(e) ==
    /\ ws[e] \in {"connecting", "open"}
    /\ ws' = [ws EXCEPT ![e] = "lost"]
    /\ closedBy' = [closedBy EXCEPT ![e] = "server"]
    /\ UNCHANGED <<pod, epoch, events, faults, pc, conns, isNew, isClosed,
                   sockOpen, clientGone, podSchemas, hasManager, registered,
                   pending, cbpc, sweepTargets, viewChanged, failedCount,
                   resync, tick, recv, nerr, lastBuilt, errMsg, informerGot,
                   effect, selfClose, timers, nconnect, wsRef, wsOpenRef,
                   syncing, nframes, deploymentPodsWsConnRws, rw,
                   deploymentOf, mpc, deploymentPodsWsHasManagers, raced,
                   fatal>>

\* OnClose without the selfClose test.
OnClose_AlwaysReconnects(e) ==
    /\ ws[e] \in {"closing", "lost"}
    /\ ws' = [ws EXCEPT ![e] = "closed"]
    /\ wsOpenRef' = FALSE
    /\ timers' = [timers EXCEPT ![e] = @ + 1]
    /\ UNCHANGED <<pod, epoch, events, faults, pc, conns, isNew, isClosed,
                   sockOpen, clientGone, podSchemas, hasManager, registered,
                   pending, cbpc, sweepTargets, viewChanged, failedCount,
                   resync, tick, recv, nerr, lastBuilt, errMsg, informerGot,
                   effect, selfClose, nconnect, closedBy, wsRef, syncing,
                   nframes, deploymentPodsWsConnRws, rw, deploymentOf, mpc,
                   deploymentPodsWsHasManagers, raced, fatal>>

\* ws.onclose: unless selfClose is set, setTimeout(connect, 3000).
OnClose(e) ==
    /\ ws[e] \in {"closing", "lost"}
    /\ ws' = [ws EXCEPT ![e] = "closed"]
    /\ wsOpenRef' = FALSE
    /\ timers' = [timers EXCEPT ![e] = IF selfClose[e] THEN @ ELSE @ + 1]
    /\ UNCHANGED <<pod, epoch, events, faults, pc, conns, isNew, isClosed,
                   sockOpen, clientGone, podSchemas, hasManager, registered,
                   pending, cbpc, sweepTargets, viewChanged, failedCount,
                   resync, tick, recv, nerr, lastBuilt, errMsg, informerGot,
                   effect, selfClose, nconnect, closedBy, wsRef, syncing,
                   nframes, deploymentPodsWsConnRws, rw, deploymentOf, mpc,
                   deploymentPodsWsHasManagers, raced, fatal>>

\* Three seconds have passed: the timer calls connect().
TimerFires(e) ==
    /\ timers[e] > 0
    /\ nconnect[e] < MaxConnects
    /\ timers' = [timers EXCEPT ![e] = @ - 1]
    /\ connect(e)
    /\ UNCHANGED <<pod, epoch, events, faults, pc, conns, isNew, isClosed,
                   sockOpen, clientGone, podSchemas, hasManager, registered,
                   pending, cbpc, sweepTargets, viewChanged, failedCount,
                   resync, tick, recv, nerr, lastBuilt, errMsg, informerGot,
                   effect, wsRef, wsOpenRef, syncing, nframes,
                   deploymentPodsWsConnRws, rw, deploymentOf, mpc,
                   deploymentPodsWsHasManagers, raced, fatal>>

\* The cleanup of the effect (the viewer is closed or wsUrl or open
\* changed): ws?.close(), selfClose = true, wsRef.current = null.  close()
\* does nothing on a socket that is already closed or being closed.
Cleanup(e) ==
    /\ effect[e] = "active"
    /\ effect' = [effect EXCEPT ![e] = "cleaned"]
    /\ IF ws[e] \in {"connecting", "open"}
       THEN /\ ws' = [ws EXCEPT ![e] = "closing"]
            /\ closedBy' = [closedBy EXCEPT ![e] = "client"]
       ELSE UNCHANGED <<ws, closedBy>>
    /\ selfClose' = [selfClose EXCEPT ![e] = TRUE]
    /\ wsRef' = 0
    /\ UNCHANGED <<pod, epoch, events, faults, pc, conns, isNew, isClosed,
                   sockOpen, clientGone, podSchemas, hasManager, registered,
                   pending, cbpc, sweepTargets, viewChanged, failedCount,
                   resync, tick, recv, nerr, lastBuilt, errMsg, informerGot,
                   timers, nconnect, wsOpenRef, syncing, nframes,
                   deploymentPodsWsConnRws, rw, deploymentOf, mpc,
                   deploymentPodsWsHasManagers, raced, fatal>>

ClientNext ==
    \E e \in Effects :
        \/ EffectOff(e)
        \/ EffectRun(e)
        \/ OnOpen(e)
        \/ ServerClose(e)
        \/ OnClose(e)
        \/ TimerFires(e)
        \/ Cleanup(e)

ClientSpec == Init /\ [][ClientNext]_vars

\* ------------------------------------------- the hasManager map (828-846)
\*
\* deploymentPodsWsHasManagers is one plain map for all deployments; each
\* handler reads and writes its own key under the rw of its own deployment.
\* An access is split into its beginning and its end so that two accesses in
\* progress at once are visible. A handler is at "wait" before rw.RLock,
\* "reading" inside the read, "claim" after a read of false, "writing"
\* inside the write of true, "manager" in its final loop, "exiting" when it
\* returns, "clearing" inside the deferred write of false, "done" after.

Reading(h) == mpc[h] = "reading"
Writing(h) == mpc[h] \in {"writing", "clearing"}
Accessing(h) == Reading(h) \/ Writing(h)

\* rw of handler h's deployment can be read-locked, write-locked.
CanRLock(h) ==
    \A g \in Sessions \ {h} : deploymentOf[g] = deploymentOf[h] => ~Writing(g)
CanLock(h) ==
    \A g \in Sessions \ {h} : deploymentOf[g] = deploymentOf[h] => ~Accessing(g)

\* raced after handler h has begun an access of the given kind: h and every
\* handler whose access in progress conflicts with it have raced.
RacedAfter(h, writes) ==
    LET others == {g \in Sessions \ {h} : Accessing(g) /\ (writes \/ Writing(g))}
    IN [g \in Sessions |->
          raced[g] \/ g \in others \/ (g = h /\ others # {})]

\* The outcomes of an access that has ended: a map access that overlapped a
\* write is a data race, which the runtime may detect ("fatal error:
\* concurrent map read and map write", "concurrent map writes").
Outcomes(h) == IF raced[h] THEN {"ok", "fatal"} ELSE {"ok"}

\* rw.RLock; the read of hasManager begins.
MapReadBegin(h) ==
    /\ ~fatal
    /\ mpc[h] = "wait"
    /\ CanRLock(h)
    /\ mpc' = [mpc EXCEPT ![h] = "reading"]
    /\ raced' = RacedAfter(h, FALSE)
    /\ UNCHANGED <<pod, epoch, events, faults, pc, conns, isNew, isClosed,
                   sockOpen, clientGone, podSchemas, hasManager, registered,
                   pending, cbpc, sweepTargets, viewChanged, failedCount,
                   resync, tick, recv, nerr, lastBuilt, errMsg, informerGot,
                   effect, ws, selfClose, timers, nconnect, closedBy, wsRef,
                   wsOpenRef, syncing, nframes, deploymentPodsWsConnRws, rw,
                   deploymentOf, deploymentPodsWsHasManagers, fatal>>

\* The read ends; rw.RUnlock; with hasManager the handler waits for the
\* ticker, without it breaks out of the loop. A read that raced returns
\* any value.
MapReadEnd(h) ==
    /\ ~fatal
    /\ mpc[h] = "reading"
    /\ \E outcome \in Outcomes(h) :
        \E hasMgr \in (IF raced[h] THEN BOOLEAN
                       ELSE {deploymentPodsWsHasManagers[deploymentOf[h]]}) :
          /\ fatal' = (outcome = "fatal")
          /\ mpc' = [mpc EXCEPT ![h] = IF hasMgr THEN "wait" ELSE "claim"]
    /\ raced' = [raced EXCEPT ![h] = FALSE]
    /\ UNCHANGED <<pod, epoch, events, faults, pc, conns, isNew, isClosed,
                   sockOpen, clientGone, podSchemas, hasManager, registered,
                   pending, cbpc, sweepTargets, viewChanged, failedCount,
                   resync, tick, recv, nerr, lastBuilt, errMsg, informerGot,
                   effect, ws, selfClose, timers, nconnect, closedBy, wsRef,
                   wsOpenRef, syncing, nframes, deploymentPodsWsConnRws, rw,
                   deploymentOf, deploymentPodsWsHasManagers>>

\* The waiting loop finds pollingCtx done and returns nil.
MapWaitCancelled(h) ==
    /\ ~fatal
    /\ mpc[h] = "wait"
    /\ mpc' = [mpc EXCEPT ![h] = "done"]
    /\ UNCHANGED <<pod, epoch, events, faults, pc, conns, isNew, isClosed,
                   sockOpen, clientGone, podSchemas, hasManager, registered,
                   pending, cbpc, sweepTargets, viewChanged, failedCount,
                   resync, tick, recv, nerr, lastBuilt, errMsg, informerGot,
                   effect, ws, selfClose, timers, nconnect, closedBy, wsRef,
                   wsOpenRef, syncing, nframes, deploymentPodsWsConnRws, rw,
                   deploymentOf, deploymentPodsWsHasManagers, raced, fatal>>

\* rw.Lock; the write hasManager = true begins.
MapWriteBegin(h) ==
    /\ ~fatal
    /\ mpc[h] = "claim"
    /\ CanLock(h)
    /\ mpc' = [mpc EXCEPT ![h] = "writing"]
    /\ raced' = RacedAfter(h, TRUE)
    /\ UNCHANGED <<pod, epoch, events, faults, pc, conns, isNew, isClosed,
                   sockOpen, clientGone, podSchemas, hasManager, registered,
                   pending, cbpc, sweepTargets, viewChanged, failedCount,
                   resync, tick, recv, nerr, lastBuilt, errMsg, informerGot,
                   effect, ws, selfClose, timers, nconnect, closedBy, wsRef,
                   wsOpenRef, syncing, nframes, deploymentPodsWsConnRws, rw,
                   deploymentOf, deploymentPodsWsHasManagers, fatal>>

\* The write ends; rw.Unlock; the handler is in its final loop.
MapWriteEnd(h) ==
    /\ ~fatal
    /\ mpc[h] = "writing"
    /\ \E outcome \in Outcomes(h) : fatal' = (outcome = "fatal")
    /\ deploymentPodsWsHasManagers' =
          [deploymentPodsWsHasManagers EXCEPT ![deploymentOf[h]] = TRUE]
    /\ mpc' = [mpc EXCEPT ![h] = "manager"]
    /\ raced' = [raced EXCEPT ![h] = FALSE]
    /\ UNCHANGED <<pod, epoch, events, faults, pc, conns, isNew, isClosed,
                   sockOpen, clientGone, podSchemas, hasManager, registered,
                   pending, cbpc, sweepTargets, viewChanged, failedCount,
                   resync, tick, recv, nerr, lastBuilt, errMsg, informerGot,
                   effect, ws, selfClose, timers, nconnect, closedBy, wsRef,
                   wsOpenRef, syncing, nframes, deploymentPodsWsConnRws, rw,
                   deploymentOf>>

\* The final loop ends and the handler returns.
MapManagerStop(h) ==
    /\ ~fatal
    /\ mpc[h] = "manager"
    /\ mpc' = [mpc EXCEPT ![h] = "exiting"]
    /\ UNCHANGED <<pod, epoch, events, faults, pc, conns, isNew, isClosed,
                   sockOpen, clientGone, podSchemas, hasManager, registered,
                   pending, cbpc, sweepTargets, viewChanged, failedCount,
                   resync, tick, recv, nerr, lastBuilt, errMsg, informerGot,
                   effect, ws, selfClose, timers, nconnect, closedBy, wsRef,
                   wsOpenRef, syncing, nframes, deploymentPodsWsConnRws, rw,
                   deploymentOf, deploymentPodsWsHasManagers, raced, fatal>>

\* The deferred function: rw.Lock; the write hasManager = false begins.
MapClearBegin(h) ==
    /\ ~fatal
    /\ mpc[h] = "exiting"
    /\ CanLock(h)
    /\ mpc' = [mpc EXCEPT ![h] = "clearing"]
    /\ raced' = RacedAfter(h, TRUE)
    /\ UNCHANGED <<pod, epoch, events, faults, pc, conns, isNew, isClosed,
                   sockOpen, clientGone, podSchemas, hasManager, registered,
                   pending, cbpc, sweepTargets, viewChanged, failedCount,
                   resync, tick, recv, nerr, lastBuilt, errMsg, informerGot,
                   effect, ws, selfClose, timers, nconnect, closedBy, wsRef,
                   wsOpenRef, syncing, nframes, deploymentPodsWsConnRws, rw,
                   deploymentOf, deploymentPodsWsHasManagers, fatal>>

\* The deferred write ends; rw.Unlock.
MapClearEnd(h) ==
    /\ ~fatal
    /\ mpc[h] = "clearing"
    /\ \E outcome \in Outcomes(h) : fatal' = (outcome = "fatal")
    /\ deploymentPodsWsHasManagers' =
          [deploymentPodsWsHasManagers EXCEPT ![deploymentOf[h]] = FALSE]
    /\ mpc' = [mpc EXCEPT ![h] = "done"]
    /\ raced' = [raced EXCEPT ![h] = FALSE]
    /\ UNCHANGED <<pod, epoch, events, faults, pc, conns, isNew, isClosed,
                   sockOpen, clientGone, podSchemas, hasManager, registered,
                   pending, cbpc, sweepTargets, viewChanged, failedCount,
                   resync, tick, recv, nerr, lastBuilt, errMsg, informerGot,
                   effect, ws, selfClose, timers, nconnect, closedBy, wsRef,
                   wsOpenRef, syncing, nframes, deploymentPodsWsConnRws, rw,
                   deploymentOf>>

MapNext ==
    \E h \in Sessions :
        \/ MapReadBegin(h)
        \/ MapReadEnd(h)
        \/ MapWaitCancelled(h)
        \/ MapWriteBegin(h)
        \/ MapWriteEnd(h)
        \/ MapManagerStop(h)
        \/ MapClearBegin(h)
        \/ MapClearEnd(h)

\* Handlers of any deployments.
InitMap ==
    /\ pod = "none"
    /\ epoch = 0
    /\ events = 0
    /\ faults = 0
    /\ pc = [h \in Sessions |-> "init"]
    /\ conns = {}
    /\ isNew = [h \in Sessions |-> FALSE]
    /\ isClosed = [h \in Sessions |-> FALSE]
    /\ sockOpen = [h \in Sessions |-> FALSE]
    /\ clientGone = [h \in Sessions |-> FALSE]
    /\ podSchemas = [h \in Sessions |-> Nil]
    /\ hasManager = FALSE
    /\ registered = [h \in Sessions |-> FALSE]
    /\ pending = [h \in Sessions |-> 0]
    /\ cbpc = [h \in Sessions |-> "idle"]
    /\ sweepTargets = {}
    /\ viewChanged = FALSE
    /\ failedCount = [h \in Sessions |-> 0]
    /\ resync = [h \in Sessions |-> 0]
    /\ syncing = [h \in Sessions |-> 0]
    /\ tick = 0
    /\ recv = [h \in Sessions |-> Nil]
    /\ nerr = [h \in Sessions |-> 0]
    /\ lastBuilt = Nil
    /\ errMsg = [h \in Sessions |-> "none"]
    /\ informerGot = [h \in Sessions |-> FALSE]
    /\ nframes = [h \in Sessions |-> 0]
    /\ deploymentPodsWsConnRws = 0
    /\ rw = [h \in Sessions |-> 0]
    /\ deploymentOf \in [Sessions -> Deployments]
    /\ mpc = [h \in Sessions |-> "wait"]
    /\ deploymentPodsWsHasManagers = [d \in Deployments |-> FALSE]
    /\ raced = [h \in Sessions |-> FALSE]
    /\ fatal = FALSE
    /\ effect = [e \in Effects |-> "idle"]
    /\ ws = [e \in Effects |-> "none"]
    /\ selfClose = [e \in Effects |-> FALSE]
    /\ timers = [e \in Effects |-> 0]
    /\ nconnect = [e \in Effects |-> 0]
    /\ closedBy = [e \in Effects |-> "none"]
    /\ wsRef = 0
    /\ wsOpenRef = FALSE

MapSpec == InitMap /\ [][MapNext]_vars

\* ------------------------------------------------------- derived notions

\* Handler h is in the manager role: it has set hasManager, registered its
\* callbacks, and its callbacks still run send (pollingCtx is not done).
InManagerRole(h) == pc[h] = "manager" /\ ~Cancelled(h)

\* Session s is connected and served: its snapshot was written, neither end
\* has closed the socket, its handler is waiting or managing.
Connected(s) == pc[s] \in {"wait", "manager"} /\ WriteOK(s)

\* This step is the end of a send run by h's listener (all writes returned).
SendEnds(h) == cbpc[h] = "sweep" /\ cbpc'[h] = "idle"

\* This step is the start of a send by h's listener that built its view.
SendBegins(h) == cbpc[h] = "idle" /\ cbpc'[h] = "sweep"

\* This step delivers session s's admission snapshot.
SnapshotDelivered(s) == pc[s] = "write" /\ pc'[s] = "wait"

\* Writes in progress on session s's socket: the handler's snapshot write,
\* a write of the running send, the error frame send_ writes after a failed
\* send.
Writers(s) ==
    (IF pc[s] = "write" THEN 1 ELSE 0)
    + (IF s \in sweepTargets THEN 1 ELSE 0)
    + (IF cbpc[s] = "err" THEN 1 ELSE 0)

\* A goroutine of the server can take a step other than waiting for a tick.
ServerStep ==
    \E h \in Sessions :
        \/ AdmitFail(h) \/ ListPods(h) \/ SnapshotWrite(h) \/ WaitCancelled(h)
        \/ WaitBreak(h) \/ BecomeManager(h) \/ ManagerStop(h) \/ ManagerExit(h)
        \/ SendSkip(h) \/ SendBegin(h) \/ SendEnd(h) \/ SendFailed(h)
        \/ ResyncFailed(h) \/ ResyncSyncFailed(h)

\* Nothing is left to run on the server but the tickers.
Quiescent == ~ENABLED ServerStep

\* ----------------------------------------------------------------- claims

\* C1: at any moment at most one handler of the deployment is in the
\* manager role.
C1_AtMostOneManager ==
    Cardinality({h \in Sessions : InManagerRole(h)}) <= 1

\* C2: a send whose view changed writes to every session of the set that is
\* not closed, and the set it stores holds exactly the sessions whose write
\* succeeded.
C2_ChangedSweepKeepsWritten ==
    [][\A h \in Sessions :
         (SendEnds(h) /\ viewChanged) =>
            /\ sweepTargets = {s \in conns : ~isClosed[s]}
            /\ conns' = {s \in sweepTargets : WriteOK(s)}]_vars

\* C3: a send that builds the same view as the previous successful send of
\* the deployment (by whichever handler), with no session new, writes to no
\* session.
C3_UnchangedSweepWritesNothing ==
    [][\A h \in Sessions :
         (/\ SendBegins(h)
          /\ lastBuilt # Nil
          /\ DeepEqual(lastBuilt, View(pod, epoch))
          /\ \A s \in conns : ~isNew[s])
         => sweepTargets' = {}]_vars

\* C4: a session is never sent the view of one change twice: every frame a
\* session receives after its first carries a view of another epoch than
\* the frame before it.
C4_NoDuplicateFrame ==
    [][\A s \in Sessions :
         /\ \A h \in Sessions :
              (SendEnds(h) /\ s \in sweepTargets /\ WriteOK(s) /\ recv[s] # Nil)
              => podSchemas[h].e # recv[s].e
         /\ (SnapshotDelivered(s) /\ recv[s] # Nil)
              => podSchemas[s].e # recv[s].e]_vars

\* C5: a session never receives an older view after a newer one, whether
\* the frame is the handler's snapshot or comes from a send.
C5_FramesInOrder ==
    [][\A s \in Sessions :
         /\ \A h \in Sessions :
              (SendEnds(h) /\ s \in sweepTargets /\ WriteOK(s) /\ recv[s] # Nil)
              => podSchemas[h].e >= recv[s].e
         /\ (SnapshotDelivered(s) /\ recv[s] # Nil)
              => podSchemas[s].e >= recv[s].e]_vars

\* C6: at most one write is in progress on a session's socket.
C6_OneWriterPerSocket ==
    \A s \in Sessions : Writers(s) <= 1

\* C7: once the server has nothing left to run but its tickers, every
\* connected session has the current view as the last view it received (so
\* a view that stays is eventually every connected session's last view).
C7_QuiescentSessionsCurrent ==
    Quiescent =>
        \A s \in Sessions : Connected(s) => DeepEqual(recv[s], View(pod, epoch))

\* C8: when a handler returns because its reader cancelled the session, the
\* session is no longer a live member of the set: it is removed or closed.
C8_ReaderDetaches ==
    [][\A s \in Sessions :
         (pc[s] \in {"wait", "exit_ok"} /\ pc'[s] = "done")
         => (s \notin conns' \/ isClosed'[s])]_vars

\* C9: in a send, the sessions closed are exactly those whose own write
\* failed, every session whose write succeeded stays in the set, and the
\* failure counter is not incremented.
C9_FailedWriteClosesOnlyThatSession ==
    [][\A h \in Sessions :
         SendEnds(h) =>
            /\ \A s \in sweepTargets :
                 /\ WriteOK(s) => (s \in conns' /\ ~isClosed'[s])
                 /\ ~WriteOK(s) => isClosed'[s]
            /\ \A s \in Sessions \ sweepTargets : isClosed'[s] = isClosed[s]
            /\ failedCount'[h] <= failedCount[h]]_vars

\* C10: a tick of a manager's final loop, taken while rw is free, starts a
\* send (which holds rw while it writes, or has failed to build its view).
C10_TickStartsSend ==
    [][(tick' # tick /\ LockFree) =>
          \/ ~LockFree'
          \/ \E h \in Sessions : cbpc[h] # "err" /\ cbpc'[h] = "err"]_vars

\* This step is the final loop of h ending on failedCount > maxFailed.
StopsForFailures(h) == pc[h] = "manager" /\ pc'[h] = "exit_err"

\* C11: the manager stops for failures only with failedCount above
\* maxFailed; a counter that has passed maxFailed stays there until the
\* manager's final loop looks at it, so that the manager then stops; and the
\* manager's return clears hasManager.
C11_ManagerStopsPastThreshold ==
    [][\A h \in Sessions :
         /\ StopsForFailures(h) => failedCount[h] > maxFailed
         /\ (pc[h] = "manager" /\ failedCount[h] > maxFailed)
              => failedCount'[h] > maxFailed
         /\ (pc[h] \in {"exit_ok", "exit_err"} /\ pc'[h] = "done")
              => ~hasManager']_vars

\* This step is send_ reporting a send that failed to build its view.
SendFails(h) == cbpc[h] = "err" /\ cbpc'[h] = "idle"

\* This step is a status re-sync goroutine of h reporting a failed Get.
ResyncFails(h) == resync'[h] = resync[h] - 1

\* C12: a successful send leaves failedCount at 0, and failedCount is only
\* ever raised, by one, by a send that failed or by a status re-sync that
\* failed.
C12_CounterCountsFailures ==
    [][\A h \in Sessions :
         /\ SendEnds(h) => failedCount'[h] = 0
         /\ failedCount'[h] > failedCount[h]
              => /\ failedCount'[h] = failedCount[h] + 1
                 /\ SendFails(h) \/ ResyncFails(h)]_vars

\* C12 as stated: failedCount is only ever raised by a send that failed.
C12_OnlyFailedSweepsCount ==
    [][\A h \in Sessions :
         /\ SendEnds(h) => failedCount'[h] = 0
         /\ failedCount'[h] > failedCount[h] => SendFails(h)]_vars

\* C12 witness: a manager whose client has received an error frame for a
\* counted failure and whose failedCount a later successful send has reset.
C12_Witness ==
    \E h \in Sessions :
        /\ pc[h] = "manager" /\ cbpc[h] = "idle"
        /\ nerr[h] > 0 /\ failedCount[h] = 0
        /\ recv[h] = lastBuilt

\* C13: the set grows only by the append of a handler whose GetDeployment and
\* canView succeeded, and a handler that returns on a failure of either
\* leaves the set as it was: its session is not in it.
C13_OnlyAuthorizedAppended ==
    [][\A s \in Sessions :
         /\ (s \in conns' /\ s \notin conns)
              => (pc[s] = "init" /\ pc'[s] = "attached")
         /\ (pc[s] = "init" /\ pc'[s] = "done")
              => (conns' = conns /\ s \notin conns')]_vars

\* C13 witness: a request was refused (one error frame, never in the set)
\* while another session is in the set.
C13_Witness ==
    \E s, t \in Sessions :
        /\ pc[s] = "done" /\ nerr[s] = 1 /\ s \notin conns /\ ~sockOpen[s]
        /\ t \in conns /\ pc[t] = "wait"

\* A manager of the deployment has returned.
ManagerStopped == \E old \in Sessions : pc[old] = "done" /\ registered[old]

\* C16: after a manager has returned, (a) once the server has nothing left
\* to run but its tickers, a manager is in place again whenever a session is
\* connected, and (b) every change of the view that happens while a manager
\* is in place is notified to it, so that its send writes the new view.
C16_RestartServes ==
    /\ [](Quiescent /\ ManagerStopped
            => ((\E s \in Sessions : Connected(s))
                  => \E h \in Sessions : InManagerRole(h)))
    /\ [][(ManagerStopped /\ epoch' # epoch)
            => \A h \in Sessions :
                 InManagerRole(h) => pending'[h] = pending[h] + 1]_vars

\* C18: a handler that returns on a failure between the append of its
\* session and the end of the snapshot write leaves the session removed from
\* the set or marked closed.
C18_FailedAdmissionDetaches ==
    [][\A s \in Sessions :
         (pc[s] \in {"attached", "write"} /\ pc'[s] = "done")
         => (s \notin conns' \/ isClosed'[s])]_vars

\* C19: a send that fails to build its view writes no frame to any session,
\* leaves the last built view and the set as they were, and raises
\* failedCount by one.
C19_BuildFailureOnlyCounts ==
    [][\A h \in Sessions :
         /\ (cbpc[h] = "idle" /\ cbpc'[h] = "err")
              => (nerr' = nerr /\ recv' = recv /\ podSchemas' = podSchemas
                  /\ conns' = conns /\ failedCount' = failedCount)
         /\ SendFails(h)
              => (nerr' = nerr /\ recv' = recv /\ podSchemas' = podSchemas
                  /\ conns' = conns
                  /\ failedCount'[h] = failedCount[h] + 1)]_vars

\* C20: a manager whose failedCount is within maxFailed leaves its final
\* loop only when no other session of the deployment is still connected.
C20_ManagerOutlivesHost ==
    [][\A h \in Sessions :
         (pc[h] = "manager" /\ pc'[h] = "exit_ok")
         => \A s \in Sessions \ {h} : ~Connected(s)]_vars

\* This step is a handler returning because resolution or canView failed.
Refused(s) == pc[s] = "init" /\ pc'[s] = "done"

\* C14: a handler that returns because resolution or canView failed has
\* written exactly one error frame to its client and leaves the socket
\* closed.
C14_RefusalWritesOneErrorFrame ==
    [][\A s \in Sessions :
         Refused(s) => (nerr'[s] = nerr[s] + 1 /\ ~sockOpen'[s])]_vars

\* This step is a cluster handler returning on a selector that does not
\* parse.
ParseFails(s) == pc[s] = "parse" /\ pc'[s] = "done"

\* C15: a cluster handler whose selector does not parse writes one error
\* frame carrying the parser's message (to a client that is still there)
\* and closes the socket; it has requested no pod informer and registered
\* no callback, and its client never receives a success frame.
C15_BadSelectorOneErrorFrame ==
    /\ [][\A s \in Sessions :
            ParseFails(s) =>
               /\ WriteOK(s) => (nerr'[s] = nerr[s] + 1
                                 /\ errMsg'[s] = ParseError)
               /\ ~WriteOK(s) => nerr'[s] = nerr[s]
               /\ ~sockOpen'[s]]_vars
    /\ [](\A s \in Sessions :
            errMsg[s] = ParseError
            => (pc[s] = "done" /\ nerr[s] = 1 /\ ~sockOpen[s]
                /\ ~informerGot[s] /\ ~registered[s] /\ pending[s] = 0
                /\ recv[s] = Nil))

\* C15 witness: the client of a session has received the parser's message
\* as its only frame, while another session is being served.
C15_Witness ==
    \E s, t \in Sessions :
        /\ pc[s] = "done" /\ errMsg[s] = ParseError /\ nerr[s] = 1
        /\ recv[s] = Nil /\ ~sockOpen[s]
        /\ pc[t] = "loop" /\ recv[t] # Nil

\* This step is the onclose handler of effect e's socket.
OnCloseRuns(e) == ws[e] \in {"closing", "lost"} /\ ws'[e] = "closed"

\* This step is a call of connect() by effect e.
Connects(e) == nconnect'[e] = nconnect[e] + 1

C21_NewUntilFirstWrite ==
    \A s \in Sessions :
        (s \in conns /\ pc[s] \in {"attached", "write"} /\ recv[s] = Nil)
        => isNew[s]

\* This step belongs to the admission of session s: the append of its
\* connWrapper, the listing of the pods, the snapshot write or a failure of
\* one of them.
Admits(s) == pc[s] \in {"init", "attached", "write"} /\ pc'[s] # pc[s]

\* C22: the admission of a session writes to no other session and starts no
\* send, and a send writes to a session that is not new only when its view
\* changed.
C22_AttachWritesToNewSessionOnly ==
    [][/\ \A s \in Sessions :
            Admits(s) =>
               /\ \A t \in Sessions \ {s} :
                     recv'[t] = recv[t] /\ nerr'[t] = nerr[t]
               /\ sweepTargets' = sweepTargets
               /\ pending' = pending /\ cbpc' = cbpc
       /\ \A h \in Sessions :
            SendBegins(h) =>
               \A t \in sweepTargets' : isNew[t] \/ viewChanged']_vars

\* C22 witness: a session has received its snapshot while another session,
\* attached before it, is being served as manager's client.
C22_Witness ==
    \E s, t \in Sessions :
        /\ pc[t] = "manager" /\ recv[t] # Nil /\ WriteOK(t)
        /\ pc[s] = "wait" /\ recv[s] # Nil /\ WriteOK(s)
        /\ DeepEqual(recv[s], recv[t])

\* This step is a status re-sync goroutine of h ending on a failed
\* SyncStatus.
SyncFails(h) == syncing'[h] = syncing[h] - 1

\* C23: a send whose view changed starts a status re-sync, and every
\* re-sync that fails, in Get or in SyncStatus, raises failedCount by one.
C23_ResyncFailuresCount ==
    [][\A h \in Sessions :
         (ResyncFails(h) \/ SyncFails(h))
         => failedCount'[h] = failedCount[h] + 1]_vars

\* This step is the informer delivering the add event of a new pod.
AddEvent == pod = "none" /\ pod' # "none"

\* This step is the listener of cluster session h running one callback.
CallbackRuns(h) == pending'[h] = pending[h] - 1

\* This step writes a success frame to the client of cluster session h.
FrameWritten(h) == nframes'[h] = nframes[h] + 1

\* C24: in the cluster stream, the add event of a pod queues a callback's
\* send for a registered session exactly when the pod matches the selector;
\* that send writes one frame carrying the current view (when the view can
\* be built and the socket is alive), and frames are written by the
\* handler's first send and by such sends only.
C24_AddEventFramesIffMatch ==
    [][\A h \in Sessions :
         /\ (AddEvent /\ registered[h])
              => pending'[h] = pending[h] + (IF pod' \in {"P", "R"} THEN 1 ELSE 0)
         /\ (CallbackRuns(h) /\ faults' = faults /\ WriteOK(h))
              => (FrameWritten(h) /\ recv'[h] = View(pod, epoch))
         /\ nframes'[h] # nframes[h]
              => (FrameWritten(h) /\ (pc[h] = "first" \/ CallbackRuns(h)))]_vars

\* C24 witness: a registered session has received, after its first frame, a
\* frame showing the pod that an event has brought into the view.
C24_Witness ==
    \E h \in Sessions :
        /\ pc[h] = "loop" /\ pending[h] = 0 /\ WriteOK(h)
        /\ events = 1 /\ epoch = 1 /\ checkPod(pod)
        /\ nframes[h] = 2 /\ recv[h] = View(pod, epoch)

\* C25: in the cluster stream a successful send leaves failedCount at 0,
\* and the final loop ends for failures only with failedCount above
\* maxFailed.
C25_SuccessResetsCount ==
    [][\A h \in Sessions :
         /\ FrameWritten(h) => failedCount'[h] = 0
         /\ (pc[h] = "loop" /\ pc'[h] = "done" /\ ~ClusterCancelled(h))
              => failedCount[h] > maxFailed]_vars

\* C26: in the cluster stream a frame written after the first one carries a
\* view that differs from the view last sent.
C26_WritesOnlyChanges ==
    [][\A h \in Sessions :
         (FrameWritten(h) /\ nframes[h] > 0)
         => ~DeepEqual(recv[h], recv'[h])]_vars

\* C27: a callback that runs after its handler has returned does nothing: it
\* builds no view, attempts no write and counts no failure.
C27_NoCallbackAfterReturn ==
    [][\A h \in Sessions :
         (pc[h] = "done" /\ CallbackRuns(h))
         => (failedCount' = failedCount /\ faults' = faults /\ recv' = recv
             /\ nframes' = nframes /\ cbpc' = cbpc)]_vars

\* The handlers whose listener is inside a send, holding rw.
Sweeping == {h \in Sessions : cbpc[h] = "sweep"}

\* C28: every handler of the deployment holds the same lock, at most one
\* send is inside its locked part at a time, and from the moment a send has
\* loaded the connections until it stores the pruned ones no handler
\* attaches, no other send starts, and nothing but the end of this send
\* changes the connections, the last built view, the targets or hasManager.
C28_SweepsExclusive ==
    /\ [](/\ Cardinality(Sweeping) <= 1
          /\ \A h, g \in Sessions : (rw[h] # 0 /\ rw[g] # 0) => rw[h] = rw[g])
    /\ [][\A h \in Sessions : cbpc[h] = "sweep" =>
            /\ \A s \in Sessions : pc[s] = "init" => pc'[s] # "attached"
            /\ \A g \in Sessions \ {h} : ~SendBegins(g)
            /\ hasManager' = hasManager
            /\ lastBuilt' = lastBuilt
            /\ podSchemas'[h] = podSchemas[h]
            /\ ~SendEnds(h) => /\ conns' = conns
                               /\ isClosed' = isClosed
                               /\ sweepTargets' = sweepTargets]_vars

\* C28 witness: a send is writing to its targets while another handler's
\* request has arrived and is about to attach.
C28_Witness ==
    \E h, g \in Sessions :
        /\ h # g
        /\ cbpc[h] = "sweep" /\ sweepTargets # {}
        /\ pc[g] = "init"

\* C29: no two handlers access the hasManager map at the same time when one
\* of the two accesses is a write, whatever their deployments.
C29_NoRacyMapAccess ==
    \A h, g \in Sessions :
        (h # g /\ Accessing(h) /\ Accessing(g)) => ~(Writing(h) \/ Writing(g))

\* This step is an informer event that changes the pods matching the
\* predicate (the view built from the store differs afterwards).
ViewChanges == ToKubePodSchemas(pod') # ToKubePodSchemas(pod)

\* C30: every informer event that changes the set of matching pods queues a
\* send for every registered listener, the update that takes a pod out of
\* the view included.
C30_EveryViewChangeSweeps ==
    [][ViewChanges =>
         \A h \in Sessions : registered[h] => pending'[h] = pending[h] + 1]_vars

\* C31: once the cleanup of a run of the viewer's effect has run, that run
\* opens no new websocket, a reconnect scheduled before the cleanup
\* included.
C31_NoConnectAfterCleanup ==
    [][\A e \in Effects : effect[e] = "cleaned" => ~Connects(e)]_vars

====
